---------------------------- MODULE Spec2Model ----------------------------
(***************************************************************************)
(* The ROI designer page of the vehicle-analytics frontend                 *)
(* (frontend/src/pages/ROISetup.jsx).  The file holds two variants of the  *)
(* page: the camera-select variant (normalized x,y,w,h PUT to              *)
(* /cameras/{id}/roi) and the gate/camera variant (pixel corner            *)
(* coordinates POSTed to /rois/).  React state is the model's state; every *)
(* event handler, effect and network continuation is one action.           *)
(*                                                                         *)
(* JavaScript numbers are modelled as exact rationals <<num, den>> in      *)
(* lowest terms with den > 0, so that the divisions of handleSave and the  *)
(* multiplications of the seed effect are computed, not assumed.           *)
(***************************************************************************)
EXTENDS Integers, Sequences, FiniteSets, TLC

-----------------------------------------------------------------------------
(* Bounds of the model *)

\* camera selections (the automatic first one included) a run may make
MaxSelects == 3
\* PUT /cameras/{id}/roi calls a run may issue
MaxSaves == 2
\* POST /rois/ calls a run of the gate/camera variant may issue
MaxPosts == 2
\* camera selections and PUT calls together
MaxCalls == 3
\* how far outside the snapshot the rectangles given to the validation go
GridMargin == 1

-----------------------------------------------------------------------------
(* Rational arithmetic for JavaScript numbers *)

RECURSIVE GCD(_, _)
GCD(a, b) == IF b = 0 THEN a ELSE GCD(b, a % b)

AbsInt(a) == IF a < 0 THEN -a ELSE a

\* n/d in lowest terms, d > 0
Rat(n, d) ==
  LET s == IF d < 0 THEN -1 ELSE 1
      g == GCD(AbsInt(n), AbsInt(d))
  IN  <<(s * n) \div g, (s * d) \div g>>

Num(i) == <<i, 1>>
RAdd(a, b) == Rat(a[1] * b[2] + b[1] * a[2], a[2] * b[2])
RSub(a, b) == Rat(a[1] * b[2] - b[1] * a[2], a[2] * b[2])
RMul(a, b) == Rat(a[1] * b[1], a[2] * b[2])
\* a / b, b # 0 (every divisor of the page is a snapshot dimension > 0)
RDiv(a, b) == Rat(a[1] * b[2], a[2] * b[1])
RLt(a, b) == a[1] * b[2] < b[1] * a[2]
RLe(a, b) == a[1] * b[2] <= b[1] * a[2]
RGt(a, b) == RLt(b, a)
RAbs(a) == <<AbsInt(a[1]), a[2]>>
RMin(a, b) == IF RLe(a, b) THEN a ELSE b

-----------------------------------------------------------------------------
(* Values *)

\* JavaScript null (useState(null))
null == [isNull |-> TRUE]

\* the rows GET /cameras/ returns, in order (ids are truthy numbers)
CameraList == <<1, 2>>
Cams == {CameraList[i] : i \in DOMAIN CameraList}

\* the demo camera and gate of the gate/camera variant
cameraId == 1
gateId == 1

\* what the snapshot provider returns for a camera: the decoded image, which
\* is of that camera and has that camera's pixel dimensions
SnapshotOf(c) ==
  [cam |-> c, width |-> IF c = 1 THEN 2 ELSE 4, height |-> 2]

\* stage.getPointerPosition(): a point of the stage, which is as large as
\* the snapshot; three points of its diagonal stand for all of them
PointerPoints(snap) == {<<0, 0>>, <<1, 1>>, <<snap.width, snap.height>>}

\* e.target.position() at the end of a Konva drag: any place, partly or
\* wholly outside the stage included
DragPoints == {<<-1, 0>>, <<1, 0>>}

PixelRect(x, y, width, height) ==
  [x |-> x, y |-> y, width |-> width, height |-> height]

NormalizedRect(x, y, w, h) == [x |-> x, y |-> y, w |-> w, h |-> h]

\* the ROI the seeded database holds for each camera before the page opens:
\* camera 1 has one, camera 2 has none (404)
InitialServerRoi ==
  [c \in Cams |->
     IF c = 1 THEN NormalizedRect(Rat(0, 1), Rat(0, 1), Rat(1, 2), Rat(1, 1))
     ELSE null]

-----------------------------------------------------------------------------
(* State *)

VARIABLES
  variant,            \* which of the file's two pages runs: "camera" or "gate"
  cameras,            \* useState([]): the camera list
  loadCamerasPending, \* GET /cameras/ is outstanding
  selectedCameraId,   \* useState(null), 0 for null
  snapshot,           \* useState(null): the decoded image
  rect,               \* useState(null): the candidate pixel rectangle
  isDrawing,          \* useState(false)
  roiNormalized,      \* useState(null): the cached existing ROI
  snapFetches,        \* GET /cameras/{id}/snapshot calls outstanding
  roiFetches,         \* GET /cameras/{id}/roi calls outstanding
  saves,              \* PUT /cameras/{id}/roi calls outstanding
  serverRoi,          \* the persistence endpoint's ROI of each camera
  posts,              \* POST /rois/ calls outstanding (gate/camera variant)
  serverRois,         \* what POST /rois/ has stored, latest last
  gen,                \* camera selections made so far
  nSaves,             \* PUT or POST calls issued so far
  out,                \* the step taken last and the alert() it raised
  gesture             \* the press the pointer is held down since, and where
                      \* the pointer is now: [a, p], or null between gestures

progVars ==
  <<cameras, selectedCameraId, snapshot, rect, isDrawing, roiNormalized>>

netVars ==
  <<loadCamerasPending, snapFetches, roiFetches, saves, serverRoi, posts,
    serverRois>>

vars ==
  <<variant, cameras, loadCamerasPending, selectedCameraId, snapshot, rect,
    isDrawing, roiNormalized, snapFetches, roiFetches, saves, serverRoi,
    posts, serverRois, gen, nSaves, out, gesture>>

NoAlert == "none"

Out(ev, alert) == [ev |-> ev, alert |-> alert]

\* an HTTP exchange that has not reached the server yet
Pending == [status |-> 0]

\* the pointer goes down over the stage at p
Pressed(p) == [a |-> p, p |-> p]

\* the pointer comes to p; between gestures nothing is held
Moved(g, p) == IF g = null THEN null ELSE [g EXCEPT !.p = p]

-----------------------------------------------------------------------------
(* Coordinate transform *)

\* a seed effect that shows the ROI's fractions as if they were pixels
toPixelUnscaled(roi, snap) == PixelRect(roi.x, roi.y, roi.w, roi.h)

\* the seed effect's rectangle: the existing ROI times the snapshot's size
toPixel(roi, snap) ==
  PixelRect(RMul(roi.x, Num(snap.width)), RMul(roi.y, Num(snap.height)),
            RMul(roi.w, Num(snap.width)), RMul(roi.h, Num(snap.height)))

\* handleSave's normalized: the rectangle over the snapshot's size
toNormalized(r, snap) ==
  NormalizedRect(RDiv(r.x, Num(snap.width)), RDiv(r.y, Num(snap.height)),
                 RDiv(r.width, Num(snap.width)),
                 RDiv(r.height, Num(snap.height)))

\* useEffect[snapshot, roiNormalized]: runs after a render in which either
\* changed; yields the rectangle the page shows afterwards
SeedEffect(snap, roi, r) ==
  IF snap = null \/ roi = null THEN r ELSE toPixel(roi, snap)

\* a normalizeRect that leaves the rectangle as drawn
normalizeRectAsDrawn(raw) == raw

normalizeRect(raw) ==
  IF raw = null THEN null
  ELSE PixelRect(RMin(raw.x, RAdd(raw.x, raw.width)),
                 RMin(raw.y, RAdd(raw.y, raw.height)),
                 RAbs(raw.width), RAbs(raw.height))

\* the live read-out, computed at every render of the camera-select page
normalizedValues ==
  IF rect # null /\ snapshot # null THEN toNormalized(rect, snapshot)
  ELSE null

-----------------------------------------------------------------------------
(* Camera-select variant: camera list, selection, fetches *)

Init ==
  /\ variant \in {"camera", "gate"}
  /\ cameras = <<>>
  /\ loadCamerasPending = (variant = "camera")
  /\ selectedCameraId = 0
  /\ snapshot = null
  /\ rect = null
  /\ isDrawing = FALSE
  /\ roiNormalized = null
  \* the gate/camera page fetches the demo camera's snapshot when it mounts
  /\ snapFetches = IF variant = "gate" THEN {[gen |-> 0, cam |-> cameraId]}
                   ELSE {}
  /\ roiFetches = {}
  /\ saves = {}
  /\ serverRoi = InitialServerRoi
  /\ posts = {}
  /\ serverRois = <<>>
  /\ gen = 0
  /\ nSaves = 0
  /\ out = Out("mount", NoAlert)
  /\ gesture = null

\* useEffect[selectedCameraId] for a newly selected camera c
SelectEffect(c) ==
  /\ selectedCameraId' = c
  /\ snapshot' = null
  /\ rect' = null
  /\ roiNormalized' = null
  /\ gen' = gen + 1
  /\ snapFetches' = snapFetches \cup {[gen |-> gen + 1, cam |-> c]}
  /\ roiFetches' =
       roiFetches \cup {[gen |-> gen + 1, cam |-> c, res |-> Pending]}
  \* the <select> is outside the stage: no gesture is in progress over it
  /\ gesture' = null
  /\ UNCHANGED isDrawing

\* GET /cameras/ answers: the list is kept and its first camera selected
loadCameras ==
  /\ variant = "camera"
  /\ loadCamerasPending
  /\ loadCamerasPending' = FALSE
  /\ cameras' = CameraList
  /\ IF Len(CameraList) > 0
       THEN SelectEffect(CameraList[1])
       ELSE UNCHANGED <<selectedCameraId, snapshot, rect, roiNormalized, gen,
                        snapFetches, roiFetches, isDrawing, gesture>>
  /\ out' = Out("loadCameras", NoAlert)
  /\ UNCHANGED <<variant, saves, serverRoi, posts, serverRois, nSaves>>

\* GET /cameras/ fails: console.error only
loadCamerasError ==
  /\ variant = "camera"
  /\ loadCamerasPending
  /\ loadCamerasPending' = FALSE
  /\ out' = Out("loadCamerasError", NoAlert)
  /\ UNCHANGED <<variant, gesture,
                 progVars, snapFetches, roiFetches, saves, serverRoi,
                 posts, serverRois, gen, nSaves>>

\* the camera <select>'s onChange: another camera of the list is chosen
selectCamera(c) ==
  /\ variant = "camera"
  /\ c \in {cameras[i] : i \in DOMAIN cameras}
  /\ c # selectedCameraId
  /\ gen < MaxSelects
  /\ gen + nSaves < MaxCalls
  /\ SelectEffect(c)
  /\ out' = Out("selectCamera", NoAlert)
  /\ UNCHANGED <<variant, cameras, loadCamerasPending, saves, serverRoi,
                 posts, serverRois, nSaves>>

\* a snapshot fetch answers and the image decodes: img.onload
fetchSnapshotLoaded(m) ==
  /\ m \in snapFetches
  /\ snapFetches' = snapFetches \ {m}
  /\ snapshot' = SnapshotOf(m.cam)
  /\ rect' = IF variant = "camera"
               THEN SeedEffect(SnapshotOf(m.cam), roiNormalized, rect)
               ELSE rect
  /\ out' = Out("fetchSnapshotLoaded", NoAlert)
  /\ UNCHANGED <<variant, gesture,
                 cameras, loadCamerasPending, selectedCameraId,
                 isDrawing, roiNormalized, roiFetches, saves, serverRoi,
                 posts, serverRois, gen, nSaves>>

\* a snapshot fetch that is issued again by itself when it fails
fetchSnapshotFailedRetries(m) ==
  /\ m \in snapFetches
  /\ snapFetches' = snapFetches
  /\ out' = Out("fetchSnapshotFailed", NoAlert)
  /\ UNCHANGED <<variant, gesture, progVars, loadCamerasPending, roiFetches,
                 saves, serverRoi, posts, serverRois, gen, nSaves>>

\* a snapshot fetch fails: the promise of fetchSnapshot rejects, unhandled
fetchSnapshotFailed(m) ==
  /\ m \in snapFetches
  /\ snapFetches' = snapFetches \ {m}
  /\ out' = Out("fetchSnapshotFailed", NoAlert)
  /\ UNCHANGED <<variant, gesture,
                 progVars, loadCamerasPending, roiFetches, saves,
                 serverRoi, posts, serverRois, gen, nSaves>>

\* the persistence endpoint handles GET /cameras/{id}/roi
roiGetServed(m) ==
  /\ m \in roiFetches
  /\ m.res = Pending
  /\ \E res \in {IF serverRoi[m.cam] = null THEN [status |-> 404]
                 ELSE [status |-> 200, data |-> serverRoi[m.cam]],
                 [status |-> 500]} :
       roiFetches' = (roiFetches \ {m}) \cup {[m EXCEPT !.res = res]}
  /\ out' = Out("roiGetServed", NoAlert)
  /\ UNCHANGED <<variant, gesture,
                 progVars, loadCamerasPending, snapFetches, saves,
                 serverRoi, posts, serverRois, gen, nSaves>>

\* a fetchRoi whose failure empties the editor
fetchRoiDoneFailureClears(m) ==
  /\ m \in roiFetches
  /\ m.res # Pending
  /\ roiFetches' = roiFetches \ {m}
  /\ IF m.res.status = 200
       THEN /\ roiNormalized' = m.res.data
            /\ rect' = SeedEffect(snapshot, m.res.data, rect)
       ELSE /\ roiNormalized' = null
            /\ rect' = null
  /\ out' = Out("fetchRoiDone", NoAlert)
  /\ UNCHANGED <<variant, gesture, cameras, loadCamerasPending,
                 selectedCameraId, snapshot, isDrawing, snapFetches, saves,
                 serverRoi, posts, serverRois, gen, nSaves>>

\* fetchRoi's continuation: the answer arrives
fetchRoiDone(m) ==
  /\ m \in roiFetches
  /\ m.res # Pending
  /\ roiFetches' = roiFetches \ {m}
  /\ IF m.res.status = 200
       THEN /\ roiNormalized' = m.res.data
            /\ rect' = SeedEffect(snapshot, m.res.data, rect)
       ELSE UNCHANGED <<roiNormalized, rect>>
  /\ out' = Out("fetchRoiDone", NoAlert)
  /\ UNCHANGED <<variant, gesture,
                 cameras, loadCamerasPending, selectedCameraId,
                 snapshot, isDrawing, snapFetches, saves, serverRoi, posts,
                 serverRois, gen, nSaves>>

-----------------------------------------------------------------------------
(* Camera-select variant: pointer gestures *)

\* the pointer positions a handler may be given; the handlers guard
\* themselves against a missing snapshot, so they are run in every state
StagePoints ==
  IF snapshot = null THEN {<<0, 0>>}
  ELSE PointerPoints(snapshot)

\* a press handler that does not look for the snapshot
handleMouseDownUnguarded(p) ==
  /\ variant = "camera"
  /\ isDrawing' = TRUE
  /\ rect' = PixelRect(Num(p[1]), Num(p[2]), Num(0), Num(0))
  /\ gesture' = Pressed(p)
  /\ out' = Out("handleMouseDown", NoAlert)
  /\ UNCHANGED <<variant, cameras, selectedCameraId, snapshot, roiNormalized,
                 netVars, gen, nSaves>>

handleMouseDown(p) ==
  /\ variant = "camera"
  /\ IF snapshot = null
       THEN UNCHANGED <<isDrawing, rect, gesture>>
       ELSE /\ isDrawing' = TRUE
            /\ rect' = PixelRect(Num(p[1]), Num(p[2]), Num(0), Num(0))
            /\ gesture' = Pressed(p)
  /\ out' = Out("handleMouseDown", NoAlert)
  /\ UNCHANGED <<variant, cameras, selectedCameraId, snapshot, roiNormalized,
                 netVars, gen, nSaves>>

handleMouseMove(p) ==
  /\ variant = "camera"
  /\ IF rect = null \/ ~isDrawing
       THEN UNCHANGED rect
       ELSE rect' = [rect EXCEPT !.width = RSub(Num(p[1]), rect.x),
                                 !.height = RSub(Num(p[2]), rect.y)]
  /\ gesture' = Moved(gesture, p)
  /\ out' = Out("handleMouseMove", NoAlert)
  /\ UNCHANGED <<variant, cameras, selectedCameraId, snapshot, isDrawing,
                 roiNormalized, netVars, gen, nSaves>>

handleMouseUp ==
  /\ variant = "camera"
  /\ IF rect = null
       THEN UNCHANGED <<isDrawing, rect>>
       ELSE /\ isDrawing' = FALSE
            /\ rect' = normalizeRect(rect)
  /\ gesture' = null
  /\ out' = Out("handleMouseUp", NoAlert)
  /\ UNCHANGED <<variant, cameras, selectedCameraId, snapshot, roiNormalized,
                 netVars, gen, nSaves>>

\* an onDragEnd that starts the rectangle afresh at the place dropped
onDragEndResetsSize(p) ==
  /\ variant = "camera"
  /\ snapshot # null
  /\ rect # null
  /\ ~isDrawing
  /\ rect' = PixelRect(Num(p[1]), Num(p[2]), Num(0), Num(0))
  /\ out' = Out("onDragEnd", NoAlert)
  /\ UNCHANGED <<variant, gesture, cameras, selectedCameraId, snapshot,
                 isDrawing, roiNormalized, netVars, gen, nSaves>>

\* the Rect's onDragEnd: the Rect is rendered when there is a snapshot and a
\* rectangle, and is draggable when not drawing
onDragEnd(p) ==
  /\ variant = "camera"
  /\ snapshot # null
  /\ rect # null
  /\ ~isDrawing
  /\ rect' = [rect EXCEPT !.x = Num(p[1]), !.y = Num(p[2])]
  /\ out' = Out("onDragEnd", NoAlert)
  /\ UNCHANGED <<variant, gesture,
                 cameras, selectedCameraId, snapshot, isDrawing,
                 roiNormalized, netVars, gen, nSaves>>

\* a Clear that forgets the rectangle only
handleClearKeepsCache ==
  /\ variant = "camera"
  /\ rect' = null
  /\ UNCHANGED roiNormalized
  /\ out' = Out("handleClear", NoAlert)
  /\ UNCHANGED <<variant, gesture, cameras, selectedCameraId, snapshot,
                 isDrawing, netVars, gen, nSaves>>

handleClear ==
  /\ variant = "camera"
  /\ rect' = null
  /\ roiNormalized' = null
  /\ out' = Out("handleClear", NoAlert)
  /\ UNCHANGED <<variant, gesture,
                 cameras, selectedCameraId, snapshot, isDrawing,
                 netVars, gen, nSaves>>

-----------------------------------------------------------------------------
(* Camera-select variant: save *)

AlertWithin == "ROI must be within the image bounds."
AlertFit == "ROI must fit within the image bounds."
AlertSaved == "ROI saved"
AlertFailed == "Failed to save ROI"
\* a detail string of the server's error body
ServerDetail == "detail"

\* validate with the far-edge check left out
validateNoFarEdge(n) ==
  IF RLt(n.x, Num(0)) \/ RLt(n.y, Num(0)) \/ RLe(n.w, Num(0))
       \/ RLe(n.h, Num(0))
    THEN AlertWithin
    ELSE NoAlert

\* validate with < for <= on the extents: a zero-area rectangle passes
validateZeroArea(n) ==
  IF RLt(n.x, Num(0)) \/ RLt(n.y, Num(0)) \/ RLt(n.w, Num(0))
       \/ RLt(n.h, Num(0))
    THEN AlertWithin
    ELSE IF RGt(RAdd(n.x, n.w), Num(1)) \/ RGt(RAdd(n.y, n.h), Num(1))
           THEN AlertFit
           ELSE NoAlert

\* validate with >= for > at the far edge: a rectangle touching it fails
validateStrictEdge(n) ==
  IF RLt(n.x, Num(0)) \/ RLt(n.y, Num(0)) \/ RLe(n.w, Num(0))
       \/ RLe(n.h, Num(0))
    THEN AlertWithin
    ELSE IF RLe(Num(1), RAdd(n.x, n.w)) \/ RLe(Num(1), RAdd(n.y, n.h))
           THEN AlertFit
           ELSE NoAlert

\* the two checks of handleSave: the alert raised, or NoAlert when the
\* rectangle passes both
validate(n) ==
  IF RLt(n.x, Num(0)) \/ RLt(n.y, Num(0)) \/ RLe(n.w, Num(0))
       \/ RLe(n.h, Num(0))
    THEN AlertWithin
    ELSE IF RGt(RAdd(n.x, n.w), Num(1)) \/ RGt(RAdd(n.y, n.h), Num(1))
           THEN AlertFit
           ELSE NoAlert

\* handleSave's first line
saveGuard == rect = null \/ snapshot = null \/ selectedCameraId = 0

\* the body of the PUT: the normalized rectangle and its coordinate type
putBody(normalized) ==
  [x |-> normalized.x, y |-> normalized.y, w |-> normalized.w,
   h |-> normalized.h, coordinate_type |-> "normalized"]

\* saveAlert complaining when there is nothing to save
saveAlertOnEmpty ==
  IF saveGuard THEN AlertWithin ELSE validate(toNormalized(rect, snapshot))

\* the alert handleSave raises before it returns early, NoAlert when it
\* returns silently or goes on to the PUT
saveAlert ==
  IF saveGuard THEN NoAlert ELSE validate(toNormalized(rect, snapshot))

\* handleSave up to its await
handleSave ==
  /\ variant = "camera"
  /\ IF saveGuard \/ saveAlert # NoAlert
       THEN /\ out' = Out("handleSave", saveAlert)
            /\ UNCHANGED <<saves, nSaves>>
       ELSE LET normalized == toNormalized(rect, snapshot)
            IN  /\ nSaves < MaxSaves
                /\ gen + nSaves < MaxCalls
                /\ nSaves' = nSaves + 1
                /\ saves' = saves \cup
                     {[id |-> nSaves + 1, cam |-> selectedCameraId,
                       body |-> putBody(normalized),
                       normalized |-> normalized, res |-> Pending]}
                /\ out' = Out("handleSave", NoAlert)
  /\ UNCHANGED <<variant, gesture, progVars, loadCamerasPending, snapFetches,
                 roiFetches, serverRoi, posts, serverRois, gen>>

\* the persistence endpoint handles a PUT: it stores the rectangle, or it
\* refuses and stores nothing (with or without a detail in the error body)
roiPutServed(m) ==
  /\ m \in saves
  /\ m.res = Pending
  /\ \E res \in {[status |-> 200], [status |-> 422, detail |-> ServerDetail],
                 [status |-> 500, detail |-> ""]} :
       /\ saves' = (saves \ {m}) \cup {[m EXCEPT !.res = res]}
       /\ serverRoi' =
            IF res.status = 200
              THEN [serverRoi EXCEPT
                      ![m.cam] = NormalizedRect(m.body.x, m.body.y, m.body.w,
                                                m.body.h)]
              ELSE serverRoi
  /\ out' = Out("roiPutServed", NoAlert)
  /\ UNCHANGED <<variant, gesture, progVars, loadCamerasPending, snapFetches,
                 roiFetches, posts, serverRois, gen, nSaves>>

\* roiAfterPut caching the rectangle whatever the answer is
roiAfterPutOptimistic(m, roi) == m.normalized

\* roiAfterPut keeping the first rectangle cached: a later acknowledgement
\* does not replace it
roiAfterPutFirstWins(m, roi) ==
  IF m.res.status = 200 /\ roi = null THEN m.normalized ELSE roi

\* what the cached existing ROI is after a PUT's answer has arrived
roiAfterPut(m, roi) == IF m.res.status = 200 THEN m.normalized ELSE roi

\* handleSave after its await: the acknowledgement, or the catch
handleSaveDone(m) ==
  /\ m \in saves
  /\ m.res # Pending
  /\ saves' = saves \ {m}
  /\ roiNormalized' = roiAfterPut(m, roiNormalized)
  /\ rect' = IF m.res.status = 200
               THEN SeedEffect(snapshot, roiAfterPut(m, roiNormalized), rect)
               ELSE rect
  /\ out' = IF m.res.status = 200 THEN Out("handleSaveDone", AlertSaved)
            ELSE IF m.res.detail # ""
                   THEN Out("handleSaveDone", m.res.detail)
                   ELSE Out("handleSaveDone", AlertFailed)
  /\ UNCHANGED <<variant, gesture,
                 cameras, loadCamerasPending, selectedCameraId,
                 snapshot, isDrawing, snapFetches, roiFetches, serverRoi,
                 posts, serverRois, gen, nSaves>>

-----------------------------------------------------------------------------
(* Gate/camera variant (the file's second page) *)

\* its Stage exists only once the snapshot has loaded, and its handlers do
\* not check for one
handleMouseDownGate(p) ==
  /\ variant = "gate"
  /\ snapshot # null
  /\ rect' = PixelRect(Num(p[1]), Num(p[2]), Num(0), Num(0))
  /\ gesture' = Pressed(p)
  /\ out' = Out("handleMouseDownGate", NoAlert)
  /\ UNCHANGED <<variant, cameras, selectedCameraId, snapshot, isDrawing,
                 roiNormalized, netVars, gen, nSaves>>

\* there is no isDrawing: every move over the stage resizes the rectangle
handleMouseMoveGate(p) ==
  /\ variant = "gate"
  /\ snapshot # null
  /\ IF rect = null
       THEN UNCHANGED rect
       ELSE rect' = [rect EXCEPT !.width = RSub(Num(p[1]), rect.x),
                                 !.height = RSub(Num(p[2]), rect.y)]
  /\ gesture' = Moved(gesture, p)
  /\ out' = Out("handleMouseMoveGate", NoAlert)
  /\ UNCHANGED <<variant, cameras, selectedCameraId, snapshot, isDrawing,
                 roiNormalized, netVars, gen, nSaves>>

handleMouseUpGate ==
  /\ variant = "gate"
  /\ snapshot # null
  /\ gesture' = null
  /\ out' = Out("handleMouseUpGate", NoAlert)
  /\ UNCHANGED <<variant, progVars, netVars, gen, nSaves>>

\* the two corners handleSave posts, in pixels
coords(r) ==
  <<<<r.x, r.y>>, <<RAdd(r.x, r.width), RAdd(r.y, r.height)>>>>

\* the gate/camera page's handleSave up to its await
handleSaveGate ==
  /\ variant = "gate"
  /\ IF rect = null
       THEN UNCHANGED <<posts, nSaves>>
       ELSE /\ nSaves < MaxPosts
            /\ nSaves' = nSaves + 1
            /\ posts' = posts \cup
                 {[id |-> nSaves + 1,
                   body |-> [gate_id |-> gateId, camera_id |-> cameraId,
                             shape |-> "rectangle",
                             coordinates |-> coords(rect)],
                   res |-> Pending]}
  /\ out' = Out("handleSaveGate", NoAlert)
  /\ UNCHANGED <<variant, gesture, progVars, loadCamerasPending, snapFetches,
                 roiFetches, saves, serverRoi, serverRois, gen>>

\* POST /rois/ is handled: stored, or refused
roisPostServed(m) ==
  /\ m \in posts
  /\ m.res = Pending
  /\ \E res \in {[status |-> 200], [status |-> 422]} :
       /\ posts' = (posts \ {m}) \cup {[m EXCEPT !.res = res]}
       /\ serverRois' = IF res.status = 200 THEN <<m.body>> ELSE serverRois
  /\ out' = Out("roisPostServed", NoAlert)
  /\ UNCHANGED <<variant, gesture, progVars, loadCamerasPending, snapFetches,
                 roiFetches, saves, serverRoi, gen, nSaves>>

\* the gate/camera page's handleSave after its await; a failure is an
\* unhandled rejection and raises nothing
handleSaveGateDone(m) ==
  /\ m \in posts
  /\ m.res # Pending
  /\ posts' = posts \ {m}
  /\ out' = Out("handleSaveGateDone",
                IF m.res.status = 200 THEN AlertSaved ELSE NoAlert)
  /\ UNCHANGED <<variant, gesture, progVars, loadCamerasPending, snapFetches,
                 roiFetches, saves, serverRoi, serverRois, gen, nSaves>>

-----------------------------------------------------------------------------
(* The page as a state machine *)

Next ==
  \/ loadCameras
  \/ loadCamerasError
  \/ \E c \in Cams : selectCamera(c)
  \/ \E m \in snapFetches : fetchSnapshotLoaded(m)
  \/ \E m \in snapFetches : fetchSnapshotFailed(m)
  \/ \E m \in roiFetches : roiGetServed(m)
  \/ \E m \in roiFetches : fetchRoiDone(m)
  \/ \E p \in StagePoints : handleMouseDown(p)
  \/ \E p \in StagePoints : handleMouseMove(p)
  \/ handleMouseUp
  \/ \E p \in DragPoints : onDragEnd(p)
  \/ handleClear
  \/ handleSave
  \/ \E m \in saves : roiPutServed(m)
  \/ \E m \in saves : handleSaveDone(m)
  \/ \E p \in StagePoints : handleMouseDownGate(p)
  \/ \E p \in StagePoints : handleMouseMoveGate(p)
  \/ handleMouseUpGate
  \/ handleSaveGate
  \/ \E m \in posts : roisPostServed(m)
  \/ \E m \in posts : handleSaveGateDone(m)

Spec == Init /\ [][Next]_vars

-----------------------------------------------------------------------------
(* handleSave on a grid of rectangles *)

\* the example of the specification: {x:0.9, y:0.1, w:0.2, h:0.1} is the
\* rectangle {x:9, y:1, width:2, height:1} of a 10 x 10 snapshot
ExampleSnapshot == [cam |-> 1, width |-> 10, height |-> 10]
ExampleRect == PixelRect(Num(9), Num(1), Num(2), Num(1))

\* every rectangle with integer origin and extents from GridMargin before
\* the snapshot's origin to GridMargin beyond its far edge
GridRects(snap) ==
  {PixelRect(Num(x), Num(y), Num(w), Num(h)) :
     x \in (0 - GridMargin) .. (snap.width + GridMargin),
     y \in (0 - GridMargin) .. (snap.height + GridMargin),
     w \in (0 - GridMargin) .. (snap.width + GridMargin),
     h \in (0 - GridMargin) .. (snap.height + GridMargin)}

\* a page showing a camera's snapshot and some rectangle over it, with
\* nothing outstanding
ValidateInit ==
  /\ variant = "camera"
  /\ cameras = CameraList
  /\ loadCamerasPending = FALSE
  /\ selectedCameraId \in Cams
  /\ \/ /\ snapshot = SnapshotOf(selectedCameraId)
        /\ rect \in GridRects(snapshot)
     \/ /\ selectedCameraId = ExampleSnapshot.cam
        /\ snapshot = ExampleSnapshot
        /\ rect = ExampleRect
  /\ isDrawing = FALSE
  /\ roiNormalized = null
  /\ snapFetches = {}
  /\ roiFetches = {}
  /\ saves = {}
  /\ serverRoi = InitialServerRoi
  /\ posts = {}
  /\ serverRois = <<>>
  /\ gen = 1
  /\ nSaves = 0
  /\ out = Out("mount", NoAlert)
  /\ gesture = null

ValidateNext == handleSave

SpecValidate == ValidateInit /\ [][ValidateNext]_vars

-----------------------------------------------------------------------------
(* The page left alone: selections and fetches, no gesture, clear or save *)

SeedNext ==
  \/ loadCameras
  \/ loadCamerasError
  \/ \E c \in Cams : selectCamera(c)
  \/ \E m \in snapFetches : fetchSnapshotLoaded(m)
  \/ \E m \in snapFetches : fetchSnapshotFailed(m)
  \/ \E m \in roiFetches : roiGetServed(m)
  \/ \E m \in roiFetches : fetchRoiDone(m)

SpecSeed == Init /\ [][SeedNext]_vars

-----------------------------------------------------------------------------
(* Properties: camera switching *)

\* C1: once a camera is selected, the snapshot shown is absent or that
\* camera's; a snapshot fetched for a camera selected earlier is never shown.
C1_SnapshotOfSelectedCamera ==
  (variant = "camera" /\ snapshot # null) => snapshot.cam = selectedCameraId

\* C2: the answer to an existing-ROI fetch issued for a camera that is no
\* longer the selected one changes neither the cached existing ROI nor the
\* candidate rectangle.
C2_StaleRoiResponseDiscarded ==
  [][\A m \in roiFetches :
       (out'.ev = "fetchRoiDone" /\ m \notin roiFetches'
          /\ m.cam # selectedCameraId)
       => (roiNormalized' = roiNormalized /\ rect' = rect)]_vars

\* C3: the acknowledgement of a save issued under a camera that is no longer
\* the selected one changes neither the cached existing ROI nor the candidate
\* rectangle of the camera selected now.
C3_StaleSaveAckDiscarded ==
  [][\A m \in saves :
       (out'.ev = "handleSaveDone" /\ m \notin saves'
          /\ m.cam # selectedCameraId)
       => (roiNormalized' = roiNormalized /\ rect' = rect)]_vars

\* C4: every change of the selected camera leaves the editor idle (not
\* drawing) with the candidate rectangle, the snapshot and the cached
\* existing ROI cleared.
C4_SwitchResetsEditor ==
  [][selectedCameraId' # selectedCameraId
       => (~isDrawing' /\ rect' = null /\ snapshot' = null
             /\ roiNormalized' = null)]_vars

-----------------------------------------------------------------------------
(* Properties: validation and save *)

\* the invariants of a NormalizedRect (specification, section 3)
Section3Invariant(n) ==
  /\ RLe(Num(0), n.x)
  /\ RLe(Num(0), n.y)
  /\ RLt(Num(0), n.w)
  /\ RLt(Num(0), n.h)
  /\ RLe(RAdd(n.x, n.w), Num(1))
  /\ RLe(RAdd(n.y, n.h), Num(1))

\* a request body in the normalized representation
IsNormalizedBody(b) ==
  /\ {"x", "y", "w", "h"} \subseteq DOMAIN b
  /\ "coordinates" \notin DOMAIN b

\* C5 as claimed: every rectangle handed to a persistence endpoint, by
\* either page, is a NormalizedRect satisfying the section 3 invariants.
C5_EverySentRectValidated ==
  /\ \A m \in saves : IsNormalizedBody(m.body) /\ Section3Invariant(m.body)
  /\ \A m \in posts : IsNormalizedBody(m.body) /\ Section3Invariant(m.body)

\* C5 as amended: every rectangle the camera-select page hands to
\* PUT /cameras/{id}/roi is a NormalizedRect of coordinate type "normalized"
\* satisfying x >= 0, y >= 0, w > 0, h > 0, x + w <= 1 and y + h <= 1.
C5_PutRectValidated ==
  \A m \in saves :
    /\ IsNormalizedBody(m.body)
    /\ m.body.coordinate_type = "normalized"
    /\ Section3Invariant(m.body)

\* a PUT is outstanding whose rectangle touches the snapshot's far edge
C5_PutOutstanding ==
  \E m \in saves :
    /\ m.res = Pending
    /\ RAdd(m.body.x, m.body.w) = Num(1)
    /\ RLt(Num(0), m.body.x)

\* C6: handleSave accepts a rectangle (raises no alert and issues the PUT)
\* exactly when its normalized form satisfies the section 3 invariants, and
\* otherwise raises one of its two bounds alerts.
C6_AcceptsExactlySection3 ==
  out.ev = "handleSave" =>
    LET n == toNormalized(rect, snapshot)
    IN  /\ (saves # {}) <=> Section3Invariant(n)
        /\ (out.alert = NoAlert) <=> Section3Invariant(n)
        /\ out.alert \in {NoAlert, AlertWithin, AlertFit}

\* a rectangle reaching exactly the far corner has been accepted
C6_FarCornerAccepted ==
  /\ out.ev = "handleSave"
  /\ saves # {}
  /\ RLt(Num(0), rect.x)
  /\ RAdd(rect.x, rect.width) = Num(snapshot.width)
  /\ RAdd(rect.y, rect.height) = Num(snapshot.height)

\* C7: a handleSave whose normalized rectangle fails the section 3
\* invariants raises a bounds alert, issues no call, and leaves the candidate
\* rectangle, the cached existing ROI and the server's ROI as they were.
C7_RejectedSaveAborts ==
  [][(out'.ev = "handleSave" /\ ~saveGuard
        /\ ~Section3Invariant(toNormalized(rect, snapshot)))
       => /\ out'.alert \in {AlertWithin, AlertFit}
          /\ UNCHANGED <<saves, posts, nSaves, rect, roiNormalized,
                         serverRoi>>]_vars

\* a rectangle dragged across the far edge has just been refused
C7_FarEdgeRefused ==
  /\ out = Out("handleSave", AlertFit)
  /\ rect # null
  /\ snapshot # null
  /\ RGt(RAdd(rect.x, rect.width), Num(snapshot.width))
  /\ saves = {}

\* C8: a save invoked with no candidate rectangle or no snapshot, on either
\* page, raises nothing, issues no call and changes no state.
C8_SaveWithoutRectIsNoop ==
  [][(out'.ev \in {"handleSave", "handleSaveGate"}
        /\ (rect = null \/ snapshot = null))
       => /\ out'.alert = NoAlert
          /\ UNCHANGED <<progVars, netVars, gen, nSaves>>]_vars

\* handleSave has just run on a loaded snapshot with no rectangle
C8_SavedWithoutRect ==
  /\ out.ev = "handleSave"
  /\ rect = null
  /\ snapshot # null

\* C9: the cached existing ROI takes a saved rectangle's value exactly in
\* the step that consumes that PUT's successful acknowledgement; issuing the
\* PUT, the server handling it and a failed answer leave the cache alone.
C9_CacheUpdatedOnAckOnly ==
  [][/\ (saves' # saves
           /\ \A m \in saves : m \in saves' \/ m.res.status # 200)
          => roiNormalized' = roiNormalized
     /\ \A m \in saves :
          (m \notin saves' /\ m.res.status = 200)
          => roiNormalized' =
               NormalizedRect(m.body.x, m.body.y, m.body.w, m.body.h)]_vars

\* a successful acknowledgement has just put a drawn rectangle in the cache
C9_AckCached ==
  /\ out = Out("handleSaveDone", AlertSaved)
  /\ roiNormalized # null
  /\ roiNormalized \notin {InitialServerRoi[c] : c \in Cams}

\* the camera-select page's part of C10
C10_PutFailureHandled ==
  \A m \in saves :
    (m \notin saves' /\ m.res.status \notin {0, 200})
    => /\ UNCHANGED <<rect, snapshot, selectedCameraId, roiNormalized,
                      serverRoi>>
       /\ out'.alert = IF m.res.detail # "" THEN m.res.detail ELSE AlertFailed

\* the gate/camera page's part of C10
C10_PostFailureHandled ==
  \A m \in posts :
    (m \notin posts' /\ m.res.status \notin {0, 200})
    => /\ UNCHANGED <<rect, snapshot, serverRois>>
       /\ out'.alert # NoAlert

\* C10: when a save's persistence call fails, on either page, the candidate
\* rectangle, the cached existing ROI and the server's ROI are untouched,
\* and the server's detail or a generic fallback is reported.
C10_FailedSaveReportedAndRetryable ==
  [][C10_PutFailureHandled /\ C10_PostFailureHandled]_vars

-----------------------------------------------------------------------------
(* Properties: clear *)

\* C11: Clear makes the candidate rectangle and the cached existing ROI
\* absent, issues no PUT or POST, and leaves the server's ROIs, the snapshot
\* and the selected camera as they were.
C11_ClearIsLocal ==
  [][out'.ev = "handleClear" =>
       /\ rect' = null
       /\ roiNormalized' = null
       /\ UNCHANGED <<saves, posts, nSaves, serverRoi, serverRois, snapshot,
                      selectedCameraId>>]_vars

\* Clear has just run on a page that shows a snapshot of a camera whose ROI
\* the server still holds
C11_ClearedWithServerRoi ==
  /\ out.ev = "handleClear"
  /\ snapshot # null
  /\ selectedCameraId # 0
  /\ serverRoi[selectedCameraId] # null
  /\ rect = null
  /\ roiNormalized = null

-----------------------------------------------------------------------------
(* Properties: pointer gestures *)

\* the span from anchor a to pointer p, width and height signed
Span(a, p) ==
  PixelRect(Num(a[1]), Num(a[2]), Num(p[1] - a[1]), Num(p[2] - a[2]))

\* the same span from its least corner, width and height non-negative
CornerSpan(a, p) ==
  PixelRect(Num(IF a[1] < p[1] THEN a[1] ELSE p[1]),
            Num(IF a[2] < p[2] THEN a[2] ELSE p[2]),
            Num(AbsInt(p[1] - a[1])), Num(AbsInt(p[2] - a[2])))

\* p lies in the interior of the corner-normalized rectangle r
Inside(p, r) ==
  /\ RLt(r.x, Num(p[1])) /\ RLt(Num(p[1]), RAdd(r.x, r.width))
  /\ RLt(r.y, Num(p[2])) /\ RLt(Num(p[2]), RAdd(r.y, r.height))

\* p lies neither in r nor on its border
Outside(p, r) ==
  \/ RLt(Num(p[1]), r.x) \/ RLt(RAdd(r.x, r.width), Num(p[1]))
  \/ RLt(Num(p[2]), r.y) \/ RLt(RAdd(r.y, r.height), Num(p[2]))

\* C12: a release that ends a gesture pressed at a with the pointer at p
\* leaves the rectangle {min(a.x, p.x), min(a.y, p.y), |p.x - a.x|,
\* |p.y - a.y|}, on either page.
C12_ReleaseRetainsCornerSpan ==
  [][(out'.ev \in {"handleMouseUp", "handleMouseUpGate"} /\ gesture # null)
       => rect' = CornerSpan(gesture.a, gesture.p)]_vars

\* C13: a press inside the rectangle of an idle page does not start drawing
\* and does not reset the rectangle's width and height.
C13_PressInsideKeepsSize ==
  [][(/\ out'.ev = "handleMouseDown"
      /\ snapshot # null /\ rect # null /\ ~isDrawing
      /\ gesture' # null /\ Inside(gesture'.a, rect))
       => /\ ~isDrawing'
          /\ rect' # null
          /\ rect'.width = rect.width
          /\ rect'.height = rect.height]_vars

\* C14: while an idle page has a rectangle, a press outside it does not
\* replace the rectangle, on either page.
C14_PressOutsideKeepsRect ==
  [][(/\ out'.ev \in {"handleMouseDown", "handleMouseDownGate"}
      /\ snapshot # null /\ rect # null /\ ~isDrawing /\ gesture = null
      /\ gesture' # null /\ Outside(gesture'.a, rect))
       => rect' = rect]_vars

\* C19: a release leaves the page idle, and a pointer move with no press
\* since the last release or camera switch leaves the rectangle as it was,
\* on either page.
C19_ReleaseIdlesAndIdleMoveInert ==
  [][/\ out'.ev \in {"handleMouseUp", "handleMouseUpGate"} => ~isDrawing'
     /\ (out'.ev \in {"handleMouseMove", "handleMouseMoveGate"}
          /\ gesture = null) => rect' = rect]_vars

\* C20: after every pointer move of a gesture pressed at a, the rectangle
\* there is is {a.x, a.y, p.x - a.x, p.y - a.y} for the pointer's place p.
C20_DrawingSpansAnchorToPointer ==
  [][(out'.ev = "handleMouseMove" /\ gesture # null /\ rect # null)
       => rect' = Span(gesture'.a, gesture'.p)]_vars

-----------------------------------------------------------------------------
(* Properties: validation reasons *)

\* the ways of section 4.2 in which a normalized rectangle fails
Cases(n) ==
  {c \in {"origin", "far edge", "degenerate"} :
     \/ c = "origin" /\ (RLt(n.x, Num(0)) \/ RLt(n.y, Num(0)))
     \/ c = "far edge" /\ (RGt(RAdd(n.x, n.w), Num(1))
                            \/ RGt(RAdd(n.y, n.h), Num(1)))
     \/ c = "degenerate" /\ (RLe(n.w, Num(0)) \/ RLe(n.h, Num(0)))}

\* C15: a rejected rectangle's reason tells the three cases apart: any
\* rectangle given the same reason fails in a case this one fails in too.
C15_ReasonTellsCasesApart ==
  (out.ev = "handleSave" /\ out.alert # NoAlert) =>
    \A r \in GridRects(snapshot) :
      validate(toNormalized(r, snapshot)) = out.alert =>
        Cases(toNormalized(r, snapshot))
          \cap Cases(toNormalized(rect, snapshot)) # {}

-----------------------------------------------------------------------------
(* Properties: fetch failures *)

\* C16: an existing-ROI fetch that ends in not-found or any other failure
\* changes nothing the page shows and raises nothing: cached ROI, rectangle,
\* snapshot, drawing flag and selection stay as they are.
C16_RoiFetchFailureIsNoneConfigured ==
  [][\A m \in roiFetches :
       (/\ out'.ev = "fetchRoiDone"
        /\ roiFetches' = roiFetches \ {m}
        /\ m.res # Pending
        /\ m.res.status # 200)
         => /\ UNCHANGED <<roiNormalized, rect, snapshot, isDrawing,
                           selectedCameraId>>
            /\ out'.alert = NoAlert]_vars

\* the selected camera has no ROI on the server, so its ROI fetch has failed;
\* the cache is empty, the snapshot is shown, and the operator has drawn a
\* rectangle whose PUT is on its way
C16_SavedAfterRoiFetchFailure ==
  /\ selectedCameraId # 0
  /\ serverRoi[selectedCameraId] = null
  /\ roiFetches = {}
  /\ roiNormalized = null
  /\ snapshot # null
  /\ rect # null
  /\ \E m \in saves : m.cam = selectedCameraId /\ m.res = Pending

\* C17: once the selected camera's snapshot fetch has failed, no snapshot is
\* shown and no rectangle exists until a later selection.
C17_NoSnapshotUntilNextSelection ==
  [][(snapshot = null /\ \A m \in snapFetches : m.gen # gen)
       => \/ snapshot' = null /\ rect' = null
          \/ gen' # gen]_vars

-----------------------------------------------------------------------------
(* Properties: coordinate transform *)

Within1(a, b) == RLe(RAbs(RSub(a, b)), Num(1))

CornerNormalized(r) == RLe(Num(0), r.width) /\ RLe(Num(0), r.height)

\* C18: for a corner-normalized rectangle r with integer coordinates over a
\* snapshot s, toPixel(toNormalized(r, s), s) is within 1 pixel of r in x,
\* y, width and height.
C18_RoundTripWithinOnePixel ==
  (snapshot # null /\ rect # null /\ CornerNormalized(rect)) =>
    LET back == toPixel(toNormalized(rect, snapshot), snapshot)
    IN  /\ Within1(back.x, rect.x)
        /\ Within1(back.y, rect.y)
        /\ Within1(back.width, rect.width)
        /\ Within1(back.height, rect.height)

\* handleSave has normalized a rectangle with positive origin and size over
\* a snapshot that is wider than high
C18_OffsetRectNormalized ==
  /\ out.ev = "handleSave"
  /\ snapshot # null
  /\ snapshot.width > snapshot.height
  /\ rect # null
  /\ RGt(rect.x, Num(0)) /\ RGt(rect.y, Num(0))
  /\ RGt(rect.width, Num(0)) /\ RGt(rect.height, Num(0))

-----------------------------------------------------------------------------
(* Properties: dragging *)

-----------------------------------------------------------------------------
(* Properties: normalization before transform and persistence *)

\* C22: whenever the read-out or a save divides the rectangle by the
\* snapshot's size, and whenever a save hands it to the persistence
\* endpoint, the rectangle has non-negative width and height.
C22_NormalizedBeforeTransform ==
  [][/\ (variant' = "camera" /\ normalizedValues' # null)
          => CornerNormalized(rect')
     /\ (out'.ev = "handleSave" /\ ~saveGuard) => CornerNormalized(rect)
     /\ (out'.ev = "handleSaveGate" /\ rect # null)
          => CornerNormalized(rect)]_vars

-----------------------------------------------------------------------------
(* Properties: no rectangle without a snapshot *)

\* C23: a press while no snapshot is loaded changes nothing, and in every
\* state a rectangle is present only if a snapshot is, so that the read-out,
\* the seed effect and the save never transform without a snapshot.
C23_NoRectWithoutSnapshot ==
  [][/\ (out'.ev = "handleMouseDown" /\ snapshot = null)
          => UNCHANGED <<progVars, netVars>>
     /\ rect' # null => snapshot' # null]_vars

\* the press handler has just run on a page whose camera is selected and
\* whose snapshot has not arrived
C23_PressedWithoutSnapshot ==
  /\ out.ev = "handleMouseDown"
  /\ selectedCameraId # 0
  /\ snapshot = null
  /\ rect = null
  /\ \E m \in snapFetches : m.gen = gen

-----------------------------------------------------------------------------
(* Properties: concurrent saves *)

\* C24: at most one persistence call, PUT or POST, is outstanding at any
\* time.
C24_OneSaveInFlight == Cardinality(saves) + Cardinality(posts) <= 1

\* C25: the acknowledgement that arrives when no other save of its camera
\* stays outstanding, the last to arrive, leaves its own rectangle in the
\* cache, whichever save was issued first.
C25_LastAckWins ==
  [][\A m \in saves :
       (/\ out'.ev = "handleSaveDone"
        /\ m \notin saves'
        /\ m.res.status = 200
        /\ \A o \in saves' : o.cam # m.cam)
         => roiNormalized' = m.normalized]_vars

\* two saves of one selection have both been acknowledged, and the
\* rectangle cached is not the one the endpoint stored last: the
\* acknowledgements arrived in the other order
C25_LastAckNotLastStored ==
  /\ out = Out("handleSaveDone", AlertSaved)
  /\ saves = {}
  /\ gen = 1
  /\ nSaves > 1
  /\ roiNormalized # null
  /\ roiNormalized # serverRoi[selectedCameraId]

-----------------------------------------------------------------------------
(* Properties: seeding from the existing ROI *)

\* C26: with no gesture, clear or save made, a candidate rectangle is shown
\* only for a camera that has an existing ROI, and it is that ROI times the
\* size of the snapshot shown; for a camera without one it stays empty.
C26_RectIsSelectedCamerasRoi ==
  (variant = "camera" /\ rect # null) =>
    /\ selectedCameraId # 0
    /\ snapshot # null
    /\ serverRoi[selectedCameraId] # null
    /\ rect = toPixel(serverRoi[selectedCameraId], snapshot)

-----------------------------------------------------------------------------
(* Properties: retrying fetches *)

\* the selections whose fetches are outstanding
FetchGens(fetches) == {m.gen : m \in fetches}

-----------------------------------------------------------------------------
(* Properties: answers arriving after the operator has drawn *)

\* C28: when no gesture is in progress and a rectangle is shown, neither
\* the answer to the selected camera's ROI fetch nor the acknowledgement of
\* a save made under it changes the rectangle.
C28_AnswersKeepDrawnRect ==
  [][/\ \A m \in roiFetches :
          (/\ out'.ev = "fetchRoiDone"
           /\ m \notin roiFetches'
           /\ m.gen = gen
           /\ rect # null /\ ~isDrawing /\ gesture = null)
            => rect' = rect
     /\ \A m \in saves :
          (/\ out'.ev = "handleSaveDone"
           /\ m \notin saves'
           /\ m.cam = selectedCameraId
           /\ rect # null /\ ~isDrawing /\ gesture = null)
            => rect' = rect]_vars

-----------------------------------------------------------------------------
(* Properties: what is stored under a camera *)

\* C29: every save issued under a camera is computed with that camera's
\* own snapshot.
C29_SaveScaledByOwnSnapshot ==
  [][\A m \in saves' \ saves : snapshot.cam = m.cam]_vars

-----------------------------------------------------------------------------
(* Properties: the idle rectangle *)

\* C30: on the camera-select page, whenever isDrawing is false the
\* rectangle is absent or has non-negative width and height.
C30_IdleRectCornerNormalized ==
  (variant = "camera" /\ ~isDrawing /\ rect # null) => CornerNormalized(rect)

\* a release has just normalized a rectangle with an area
C30_ReleasedWithArea ==
  /\ variant = "camera"
  /\ out.ev = "handleMouseUp"
  /\ ~isDrawing
  /\ rect # null
  /\ RGt(rect.width, Num(0))
  /\ RGt(rect.height, Num(0))

=============================================================================
